---- MODULE Spec2Model ----
(***************************************************************************)
(* Model of migrate-asset.js: the migration of the records of one asset    *)
(* service instance (origin) to another (destination).                     *)
(*                                                                         *)
(* The program is single threaded.  Its steps are the callbacks of the     *)
(* event loop: the callback of a network call (the *Response actions,      *)
(* which settle a promise) and the promise library's settle jobs (the      *)
(* *Job actions, which run the handlers attached to a settled promise,     *)
(* in the order in which the promises were settled).  The variable jobs    *)
(* is the promise library's queue.                                         *)
(*                                                                         *)
(* Strings the program takes apart (the link header, a status code's       *)
(* decimal form) are sequences of one-character strings; strings it only   *)
(* builds or passes on are sequences of their parts.                       *)
(***************************************************************************)
EXTENDS Integers, Sequences, FiniteSets, TLC

\* ------------------------------------------------------------------ bounds

\* The server sends no continuation link on page MaxPages of a collection
\* (on page MaxPages + 1 in the runs where every call succeeds).
MaxPages == 2

\* ------------------------------------------------------- program constants

queryLimit == 1000

\* asset-config.json
originalAssetUrl == <<"origin-asset">>
destinationAssetUrl == <<"destination-asset">>
originalAssetZoneId == "origin-zone"
destinationAssetZoneId == "destination-zone"

\* The token variables' initial value, the empty string.
EmptyToken == <<>>

\* ------------------------------------------------------------ environment

Tenants == {"origin", "destination"}

\* The collections the origin may list.
Collections == {"A", "B"}

\* The answers of the origin to the listing call: the domain objects.
ListingBodies == {<<>>, <<"A">>, <<"A", "B">>}

\* A response as the request callback sees it: absent, or with a status.
NoResponse == [present |-> FALSE, statusCode |-> 0]
Response(status) == [present |-> TRUE, statusCode |-> status]

TokenStatuses == {200, 204, 401}
AssetStatuses == {200, 204, 404}

\* Bodies of a token response: a JSON object with an access token, a JSON
\* object without one, the JSON value null, and text that is not JSON.
TokenBodies == {"token", "noToken", "null", "malformed"}

\* The number of records the server puts on one page: up to queryLimit of
\* them when the run migrates a single collection, a few when it migrates
\* several (their pipelines interleave; the chunking is that of the single
\* collection).
LargePages == {0, 500, 1000}
SmallPages == {0, 1}
PageSizes(domainObjects) == IF Len(domainObjects) = 1 THEN LargePages ELSE SmallPages

\* The access token a provider hands out.
AccessToken(t) == IF t = "origin" THEN "origin-access" ELSE "destination-access"

\* Record i of page k of collection c, as the origin holds it.
SourceRecord(c, k, i) == [collection |-> c, page |-> k, index |-> i,
                          migrationDate |-> "origin-date"]

\* The body of page k of collection c when it holds n records.
PageBody(c, k, n) == [i \in 1..n |-> SourceRecord(c, k, i)]

\* The URL the server names as the next page after page k of collection c,
\* and the link header that carries it.
ServerNextUrl(c, k) == <<"u", c, ToString(k + 1), "x">>
LinkHeader(c, k) == <<"<">> \o ServerNextUrl(c, k) \o <<">", ";", "n">>
NoLink == <<>>

\* ------------------------------------------------------- JavaScript helpers

\* String.prototype.indexOf: the 0-based index of the first ch, or -1.
IndexOf(s, ch) ==
  IF \E i \in 1..Len(s) : s[i] = ch
  THEN (CHOOSE i \in 1..Len(s) : s[i] = ch /\ \A j \in 1..(i - 1) : s[j] # ch) - 1
  ELSE -1

Clamp(n, len) == IF n < 0 THEN 0 ELSE IF n > len THEN len ELSE n

\* String.prototype.substring(start, end): both clamped to 0..length and
\* swapped when start > end; the characters at 0-based start..end-1.
Substring(s, start, end) ==
  LET a == Clamp(start, Len(s))
      b == Clamp(end, Len(s))
      lo == IF a <= b THEN a ELSE b
      hi == IF a <= b THEN b ELSE a
  IN SubSeq(s, lo + 1, hi)

\* Number.prototype.toString: the decimal digits of n >= 0.
RECURSIVE NumberToString(_)
NumberToString(n) ==
  LET d == <<"0", "1", "2", "3", "4", "5", "6", "7", "8", "9">>[(n % 10) + 1]
  IN IF n < 10 THEN <<d>> ELSE NumberToString(n \div 10) \o <<d>>

\* Mutant of Chunk: the records are not divided.
ChunkWhole(array, size) == IF array = <<>> THEN <<>> ELSE <<array>>

\* Mutant of Chunk: the remainder, shorter than size, is dropped.
RECURSIVE ChunkWithoutRemainder(_, _)
ChunkWithoutRemainder(array, size) ==
  IF Len(array) < size THEN <<>>
  ELSE <<SubSeq(array, 1, size)>>
       \o ChunkWithoutRemainder(SubSeq(array, size + 1, Len(array)), size)

\* _.chunk(array, size): slices of length size, the last one the remainder.
RECURSIVE Chunk(_, _)
Chunk(array, size) ==
  IF Len(array) = 0 THEN <<>>
  ELSE IF Len(array) <= size THEN <<array>>
  ELSE <<SubSeq(array, 1, size)>> \o Chunk(SubSeq(array, size + 1, Len(array)), size)

\* new Date(): the time of the migration.
NewDate == "migration-date"

\* An optional argument or value: absent, or present with a value.
None == <<>>
Some(v) == <<v>>

\* JSON.parse of a token body that is JSON: what tokenResponse.access_token
\* reads from it ("TypeError" when the value is null, which has no fields).
AccessTokenOf(t, body) ==
  CASE body = "token" -> AccessToken(t)
    [] body = "noToken" -> "undefined"
    [] OTHER -> "TypeError"

\* `Bearer ${access_token}`
Bearer(accessToken) == <<"Bearer ", accessToken>>

\* ------------------------------------------------------------------- state

VARIABLES
  crashed,          \* an exception left a callback of the event loop uncaught
  tokenResponse,    \* per tenant: what the provider answered (<<>> before)
  tokenRequest,     \* per tenant: the promise requestToken returned
  originalToken,
  destinationToken,
  uaaAll,           \* Promise.all(uaaTokenPromises)
  jobs,             \* the promise library's queue of settled promises
  console,          \* how often each message was printed
  listing,          \* the promise of the listing call, and its value
  listingCalls,     \* the listing requests issued
  gets,             \* per collection: the page requests issued, in order
  served,           \* per collection: the pages the server answered with
  pageRequest,      \* per collection: the promise of the latest page request
  instances,        \* per collection: the records accumulated so far
  gdoi,             \* per collection: the promises getDomainObjectInstances
                    \* returned, outermost first
  posts,            \* per collection: the chunk requests issued
  chunkRequest,     \* per collection: the promise of each chunk request
  uploadAll,        \* per collection: Promise.all(promiseList)
  assetCall         \* one call of requestAssetData, taken alone

tokenVars == <<tokenResponse, tokenRequest, originalToken, destinationToken, uaaAll>>
listVars == <<listing, listingCalls>>
pageVars == <<gets, served, pageRequest, instances, gdoi>>
postVars == <<posts, chunkRequest, uploadAll>>
vars == <<crashed, tokenVars, jobs, console, listVars, pageVars, postVars, assetCall>>

Job(kind, who, n) == [kind |-> kind, who |-> who, n |-> n]

Messages ==
  {<<"Error loading the origin token">>, <<"Error loading the destination token">>,
   <<"OK">>, <<"Please check your UAA credentials">>,
   <<"There was an error listing asset domain objects">>}
  \cup {<<m, c>> : m \in {"Finished loading", "Finished posting",
                          "There was an error posting"}, c \in Collections}

Log(msg) == console' = [console EXCEPT ![msg] = @ + 1]

Pending == [state |-> "pending", count |-> 0]

Init ==
  /\ crashed = FALSE
  /\ tokenResponse = [t \in Tenants |-> <<>>]
  /\ tokenRequest = [t \in Tenants |-> [state |-> "pending", body |-> "none"]]
  /\ originalToken = EmptyToken
  /\ destinationToken = EmptyToken
  /\ uaaAll = Pending
  /\ jobs = <<>>
  /\ console = [m \in Messages |-> 0]
  /\ listing = [state |-> "none", body |-> <<>>]
  /\ listingCalls = <<>>
  /\ gets = [c \in Collections |-> <<>>]
  /\ served = [c \in Collections |-> <<>>]
  /\ pageRequest = [c \in Collections |-> [state |-> "none", body |-> <<>>, link |-> NoLink]]
  /\ instances = [c \in Collections |-> <<>>]
  /\ gdoi = [c \in Collections |-> <<>>]
  /\ posts = [c \in Collections |-> <<>>]
  /\ chunkRequest = [c \in Collections |-> <<>>]
  /\ uploadAll = [c \in Collections |-> [state |-> "none", count |-> 0]]
  /\ assetCall = [state |-> "none", request |-> None, answer |-> None,
                  thrown |-> FALSE, value |-> "none"]

\* ---------------------------------------------------------- requestToken

\* The callback's test: no error, a response, and status 200.
TokenCallbackResolves(error, response) ==
  ~error /\ response.present /\ response.statusCode = 200

\* The callback of the token request of tenant t.  JSON.parse throws on text
\* that is not JSON: nothing catches it in the callback, the promise stays
\* pending and the process ends.
TokenResponse(t, error, response, body) ==
  /\ ~crashed
  /\ UNCHANGED assetCall
  /\ tokenRequest[t].state = "pending"
  /\ tokenResponse' = [tokenResponse EXCEPT
                         ![t] = <<[error |-> error, response |-> response, body |-> body]>>]
  /\ IF TokenCallbackResolves(error, response)
     THEN IF body = "malformed"
          THEN /\ crashed' = TRUE
               /\ UNCHANGED <<tokenRequest, jobs>>
          ELSE /\ tokenRequest' = [tokenRequest EXCEPT
                                     ![t] = [state |-> "resolved", body |-> body]]
               /\ jobs' = Append(jobs, Job("token", t, 0))
               /\ UNCHANGED crashed
     ELSE /\ tokenRequest' = [tokenRequest EXCEPT ![t].state = "rejected"]
          /\ jobs' = Append(jobs, Job("token", t, 0))
          /\ UNCHANGED crashed
  /\ UNCHANGED <<originalToken, destinationToken, uaaAll, console,
                 listVars, pageVars, postVars>>

\* Mutant of AllAfterFulfil: fulfilled with the first promise that is.
AllAfterFulfilAny(all, length) ==
  IF all.state # "pending" THEN all
  ELSE [state |-> "resolved", count |-> all.count + 1]

\* Promise.all on one more fulfilled promise: fulfilled when all are.
AllAfterFulfil(all, length) ==
  IF all.state # "pending" THEN all
  ELSE IF all.count + 1 = length THEN [state |-> "resolved", count |-> all.count + 1]
  ELSE [all EXCEPT !.count = @ + 1]

\* Mutant of AllAfterReject: a rejection is swallowed.
AllAfterRejectSwallowed(all) == all

\* Promise.all on a rejected promise: rejected at once.
AllAfterReject(all) ==
  IF all.state # "pending" THEN all ELSE [all EXCEPT !.state = "rejected"]

\* Mutant of TokenJob: the handler stores its token in both variables.
TokenJobWritesBoth(t) ==
  /\ ~crashed
  /\ UNCHANGED assetCall
  /\ jobs # <<>> /\ Head(jobs) = Job("token", t, 0)
  /\ LET p == tokenRequest[t]
         access == AccessTokenOf(t, p.body)
         stored == p.state = "resolved" /\ access # "TypeError"
         all == IF p.state = "resolved" THEN AllAfterFulfil(uaaAll, 2)
                ELSE AllAfterReject(uaaAll)
     IN /\ originalToken' = IF stored THEN Bearer(access)
                            ELSE originalToken
        /\ destinationToken' = IF stored THEN Bearer(access)
                               ELSE destinationToken
        /\ IF p.state = "rejected"
           THEN Log(IF t = "origin" THEN <<"Error loading the origin token">>
                       ELSE <<"Error loading the destination token">>)
           ELSE UNCHANGED console
        /\ uaaAll' = all
        /\ jobs' = IF all.state # uaaAll.state
                   THEN Append(Tail(jobs), Job("uaaAll", "", 0))
                   ELSE Tail(jobs)
  /\ UNCHANGED <<crashed, tokenResponse, tokenRequest, listVars, pageVars, postVars>>

\* The handlers of tenant t's token promise: the one migrate attached, which
\* stores the token or prints the error, then Promise.all's.
TokenJob(t) ==
  /\ ~crashed
  /\ UNCHANGED assetCall
  /\ jobs # <<>> /\ Head(jobs) = Job("token", t, 0)
  /\ LET p == tokenRequest[t]
         access == AccessTokenOf(t, p.body)
         stored == p.state = "resolved" /\ access # "TypeError"
         all == IF p.state = "resolved" THEN AllAfterFulfil(uaaAll, 2)
                ELSE AllAfterReject(uaaAll)
     IN /\ originalToken' = IF stored /\ t = "origin" THEN Bearer(access)
                            ELSE originalToken
        /\ destinationToken' = IF stored /\ t = "destination" THEN Bearer(access)
                               ELSE destinationToken
        /\ IF p.state = "rejected"
           THEN Log(IF t = "origin" THEN <<"Error loading the origin token">>
                       ELSE <<"Error loading the destination token">>)
           ELSE UNCHANGED console
        /\ uaaAll' = all
        /\ jobs' = IF all.state # uaaAll.state
                   THEN Append(Tail(jobs), Job("uaaAll", "", 0))
                   ELSE Tail(jobs)
  /\ UNCHANGED <<crashed, tokenResponse, tokenRequest, listVars, pageVars, postVars>>

\* ------------------------------------------------------- requestAssetData

\* The request requestAssetData sends.
AssetRequest(url, zoneId, token, method, body) ==
  [url |-> url,
   headers |-> [zoneId |-> zoneId, authorization |-> token,
                forceWrite |-> (method = Some("POST"))],
   method |-> IF method = None THEN "GET" ELSE method[1],
   json |-> (body # None),
   body |-> body]

\* The callback's test for rejecting: an error, or a response whose status
\* code, written in decimal, does not start with 2.
AssetCallbackRejects(error, response) ==
  error \/ (response.present
            /\ IndexOf(NumberToString(response.statusCode), "2") # 0)

\* What the request library hands the callback: an error, or a response.
AssetOutcomes ==
  {[error |-> TRUE, response |-> NoResponse]}
  \cup {[error |-> FALSE, response |-> Response(s)] : s \in AssetStatuses}

\* The bodies a response can carry: none, JSON text, text that is not JSON.
ResponseBodies == {"absent", "json", "malformed"}

\* What the callback receives of one call: the outcome and the body.  A body
\* comes with a response only.
AssetAnswers ==
  {[error |-> TRUE, response |-> NoResponse, body |-> "absent"]}
  \cup {[error |-> FALSE, response |-> Response(s), body |-> b] :
          s \in AssetStatuses \cup {302, 500}, b \in ResponseBodies}

\* JSON.parse(body) in the callback returns, rather than throws.  With
\* json: true the request library has parsed a JSON body already, and
\* JSON.parse of an object throws as it does on malformed text.
BodyParses(request, body) == body = "json" /\ ~request.json

\* requestAssetData(url, zoneId, token, method, body): the executor sends the
\* request; request(...) throwing is caught and rejects.
RequestAssetData(url, zoneId, token, method, body, throws) ==
  /\ ~crashed
  /\ assetCall.state = "none"
  /\ assetCall' = [assetCall EXCEPT
       !.state = IF throws THEN "rejected" ELSE "pending",
       !.request = Some(AssetRequest(url, zoneId, token, method, body)),
       !.thrown = throws]
  /\ UNCHANGED <<crashed, tokenVars, jobs, console, listVars, pageVars, postVars>>

\* The callback of that call.  It rejects on the test above; otherwise it
\* resolves with the parsed body, or null without a body.  JSON.parse runs
\* in the callback, outside the try block of the executor: when it throws
\* the promise is neither resolved nor rejected and the process ends.
AssetCallback(error, response, body) ==
  /\ ~crashed
  /\ assetCall.state = "pending"
  /\ LET request == assetCall.request[1]
         answer == Some([error |-> error, response |-> response, body |-> body])
     IN IF AssetCallbackRejects(error, response)
        THEN /\ assetCall' = [assetCall EXCEPT !.state = "rejected", !.answer = answer]
             /\ UNCHANGED crashed
        ELSE IF body = "absent"
        THEN /\ assetCall' = [assetCall EXCEPT !.state = "resolved", !.answer = answer,
                                               !.value = "null"]
             /\ UNCHANGED crashed
        ELSE IF BodyParses(request, body)
        THEN /\ assetCall' = [assetCall EXCEPT !.state = "resolved", !.answer = answer,
                                               !.value = "parsed"]
             /\ UNCHANGED crashed
        ELSE /\ assetCall' = [assetCall EXCEPT !.answer = answer, !.thrown = TRUE]
             /\ crashed' = TRUE
  /\ UNCHANGED <<tokenVars, jobs, console, listVars, pageVars, postVars>>

\* The handlers of Promise.all(uaaTokenPromises): the listing call, or the
\* credentials message.
UaaAllJob ==
  /\ ~crashed
  /\ UNCHANGED assetCall
  /\ jobs # <<>> /\ Head(jobs) = Job("uaaAll", "", 0)
  /\ IF uaaAll.state = "resolved"
     THEN /\ Log(<<"OK">>)
          /\ listingCalls' = Append(listingCalls,
               AssetRequest(originalAssetUrl, originalAssetZoneId, originalToken, None, None))
          /\ listing' = [listing EXCEPT !.state = "pending"]
     ELSE /\ Log(<<"Please check your UAA credentials">>)
          /\ UNCHANGED listVars
  /\ jobs' = Tail(jobs)
  /\ UNCHANGED <<crashed, tokenVars, pageVars, postVars>>

\* The callback of the listing call.
ListingResponse(error, response, body) ==
  /\ ~crashed
  /\ UNCHANGED assetCall
  /\ listing.state = "pending"
  /\ listing' = IF AssetCallbackRejects(error, response)
                THEN [listing EXCEPT !.state = "rejected"]
                ELSE [state |-> "resolved", body |-> body]
  /\ jobs' = Append(jobs, Job("listing", "", 0))
  /\ UNCHANGED <<crashed, tokenVars, console, listingCalls, pageVars, postVars>>

\* ------------------------------------------------ getDomainObjectInstances

\* The next page's URL, cut out of the link header.
NextUrl(link) == Substring(link, IndexOf(link, "<") + 1, IndexOf(link, ">") - 1)

\* Mutant of HasLink: the link header is never followed.
HasLinkNever(link) == FALSE

\* The test for a next page: the response has a link header.
HasLink(link) == link # NoLink

\* `${originalAssetUrl}/${collection}?pageSize=${queryLimit}`
OriginDomainObjectUrl(c) ==
  originalAssetUrl \o <<"/", c, "?pageSize=">> \o NumberToString(queryLimit)

\* `${destinationAssetUrl}/${collection}`
DestinationDomainObjectUrl(c) == destinationAssetUrl \o <<"/", c>>

\* The request of one call of getDomainObjectInstances.
PageGet(url) == AssetRequest(url, originalAssetZoneId, originalToken, None, None)

Range(s) == {s[i] : i \in 1..Len(s)}

\* Mutant of ListingJob: a failed listing is asked for again.
ListingJobRetries ==
  /\ ~crashed
  /\ UNCHANGED assetCall
  /\ jobs # <<>> /\ Head(jobs) = Job("listing", "", 0)
  /\ jobs' = Tail(jobs)
  /\ IF listing.state = "resolved"
     THEN LET found == Range(listing.body)
          IN /\ gets' = [c \in Collections |->
                          IF c \in found THEN <<PageGet(OriginDomainObjectUrl(c))>>
                          ELSE gets[c]]
             /\ pageRequest' = [c \in Collections |->
                                 IF c \in found THEN [pageRequest[c] EXCEPT !.state = "pending"]
                                 ELSE pageRequest[c]]
             /\ gdoi' = [c \in Collections |->
                          IF c \in found THEN <<"pending">> ELSE gdoi[c]]
             /\ UNCHANGED <<console, served, instances, listVars>>
     ELSE /\ Log(<<"There was an error listing asset domain objects">>)
          /\ listingCalls' = Append(listingCalls,
               AssetRequest(originalAssetUrl, originalAssetZoneId, originalToken, None, None))
          /\ listing' = [listing EXCEPT !.state = "pending"]
          /\ UNCHANGED pageVars
  /\ UNCHANGED <<crashed, tokenVars, postVars>>

\* The handlers of the listing promise: one getDomainObjectInstances call
\* per domain object, each sending its first page request; or the message.
ListingJob ==
  /\ ~crashed
  /\ UNCHANGED assetCall
  /\ jobs # <<>> /\ Head(jobs) = Job("listing", "", 0)
  /\ jobs' = Tail(jobs)
  /\ IF listing.state = "resolved"
     THEN LET found == Range(listing.body)
          IN /\ gets' = [c \in Collections |->
                          IF c \in found THEN <<PageGet(OriginDomainObjectUrl(c))>>
                          ELSE gets[c]]
             /\ pageRequest' = [c \in Collections |->
                                 IF c \in found THEN [pageRequest[c] EXCEPT !.state = "pending"]
                                 ELSE pageRequest[c]]
             /\ gdoi' = [c \in Collections |->
                          IF c \in found THEN <<"pending">> ELSE gdoi[c]]
             /\ UNCHANGED <<console, served, instances>>
     ELSE /\ Log(<<"There was an error listing asset domain objects">>)
          /\ UNCHANGED pageVars
  /\ UNCHANGED <<crashed, tokenVars, listVars, postVars>>

\* The callback of the latest page request of collection c.  The server
\* answers with size records and, when more is true, a link to a next page.
\* The asset service's bodies are taken to be what its interface promises:
\* a JSON array of records on a GET, no body on a POST (JSON.parse of
\* anything else would throw in the callback).
PageResponse(c, error, response, size, more) ==
  /\ ~crashed
  /\ UNCHANGED assetCall
  /\ pageRequest[c].state = "pending"
  /\ LET k == Len(gets[c])
         link == IF more THEN LinkHeader(c, k) ELSE NoLink
     IN IF AssetCallbackRejects(error, response)
        THEN /\ pageRequest' = [pageRequest EXCEPT ![c].state = "rejected"]
             /\ UNCHANGED served
        ELSE /\ pageRequest' = [pageRequest EXCEPT
                                  ![c] = [state |-> "resolved",
                                          body |-> PageBody(c, k, size), link |-> link]]
             /\ served' = [served EXCEPT ![c] = Append(@, [size |-> size, link |-> link])]
  /\ jobs' = Append(jobs, Job("page", c, Len(gets[c])))
  /\ UNCHANGED <<crashed, tokenVars, console, listVars, gets, instances, gdoi, postVars>>

\* Mutant of PageJob: the rejection handler ends the process.
PageJobExits(c) ==
  /\ ~crashed
  /\ UNCHANGED assetCall
  /\ jobs # <<>> /\ Head(jobs) = Job("page", c, Len(gets[c]))
  /\ LET k == Len(gets[c])
         p == pageRequest[c]
     IN IF p.state = "resolved"
        THEN /\ instances' = [instances EXCEPT ![c] = @ \o p.body]
             /\ IF HasLink(p.link)
                THEN /\ gets' = [gets EXCEPT ![c] = Append(@, PageGet(NextUrl(p.link)))]
                     /\ pageRequest' = [pageRequest EXCEPT
                          ![c] = [state |-> "pending", body |-> <<>>, link |-> NoLink]]
                     /\ gdoi' = [gdoi EXCEPT ![c] = Append(@, "pending")]
                     /\ jobs' = Tail(jobs)
                ELSE /\ gdoi' = [gdoi EXCEPT ![c][k] = "resolved"]
                     /\ jobs' = Append(Tail(jobs), Job("gdoi", c, k))
                     /\ UNCHANGED <<gets, pageRequest>>
             /\ UNCHANGED crashed
        ELSE /\ crashed' = TRUE
             /\ jobs' = Tail(jobs)
             /\ UNCHANGED <<gets, pageRequest, instances, gdoi>>
  /\ UNCHANGED <<tokenVars, console, listVars, served, postVars>>

\* Mutant of PageJob: the next page is asked for twice.
PageJobPrefetches(c) ==
  /\ ~crashed
  /\ UNCHANGED assetCall
  /\ jobs # <<>> /\ Head(jobs) = Job("page", c, Len(gets[c]))
  /\ LET k == Len(gets[c])
         p == pageRequest[c]
     IN IF p.state = "resolved"
        THEN /\ instances' = [instances EXCEPT ![c] = @ \o p.body]
             /\ IF HasLink(p.link)
                THEN /\ gets' = [gets EXCEPT ![c] = Append(Append(@, PageGet(NextUrl(p.link))),
                                                      PageGet(NextUrl(p.link)))]
                     /\ pageRequest' = [pageRequest EXCEPT
                          ![c] = [state |-> "pending", body |-> <<>>, link |-> NoLink]]
                     /\ gdoi' = [gdoi EXCEPT ![c] = Append(@, "pending")]
                     /\ jobs' = Tail(jobs)
                ELSE /\ gdoi' = [gdoi EXCEPT ![c][k] = "resolved"]
                     /\ jobs' = Append(Tail(jobs), Job("gdoi", c, k))
                     /\ UNCHANGED <<gets, pageRequest>>
        ELSE /\ gdoi' = [gdoi EXCEPT ![c][k] = "rejected"]
             /\ jobs' = Append(Tail(jobs), Job("gdoi", c, k))
             /\ UNCHANGED <<gets, pageRequest, instances>>
  /\ UNCHANGED <<crashed, tokenVars, console, listVars, served, postVars>>

\* The handlers of the page promise inside the k-th, innermost call of
\* getDomainObjectInstances for c: accumulate the page and ask for the next
\* one, or resolve this call's promise; on failure reject it.  instances[c]
\* is the innermost call's parameter, the only one still used.
PageJob(c) ==
  /\ ~crashed
  /\ UNCHANGED assetCall
  /\ jobs # <<>> /\ Head(jobs) = Job("page", c, Len(gets[c]))
  /\ LET k == Len(gets[c])
         p == pageRequest[c]
     IN IF p.state = "resolved"
        THEN /\ instances' = [instances EXCEPT ![c] = @ \o p.body]
             /\ IF HasLink(p.link)
                THEN /\ gets' = [gets EXCEPT ![c] = Append(@, PageGet(NextUrl(p.link)))]
                     /\ pageRequest' = [pageRequest EXCEPT
                          ![c] = [state |-> "pending", body |-> <<>>, link |-> NoLink]]
                     /\ gdoi' = [gdoi EXCEPT ![c] = Append(@, "pending")]
                     /\ jobs' = Tail(jobs)
                ELSE /\ gdoi' = [gdoi EXCEPT ![c][k] = "resolved"]
                     /\ jobs' = Append(Tail(jobs), Job("gdoi", c, k))
                     /\ UNCHANGED <<gets, pageRequest>>
        ELSE /\ gdoi' = [gdoi EXCEPT ![c][k] = "rejected"]
             /\ jobs' = Append(Tail(jobs), Job("gdoi", c, k))
             /\ UNCHANGED <<gets, pageRequest, instances>>
  /\ UNCHANGED <<crashed, tokenVars, console, listVars, served, postVars>>

\* The handlers of the promise of the k-th call, k > 1, attached by the call
\* before it: a fulfilment handler only, which resolves that call's promise.
\* A rejection finds no handler and the outer promise stays as it is.
InnerGdoiJob(c, k) ==
  /\ ~crashed
  /\ UNCHANGED assetCall
  /\ k > 1
  /\ jobs # <<>> /\ Head(jobs) = Job("gdoi", c, k)
  /\ IF gdoi[c][k] = "resolved"
     THEN /\ gdoi' = [gdoi EXCEPT ![c][k - 1] = "resolved"]
          /\ jobs' = Append(Tail(jobs), Job("gdoi", c, k - 1))
     ELSE /\ jobs' = Tail(jobs)
          /\ UNCHANGED gdoi
  /\ UNCHANGED <<crashed, tokenVars, console, listVars, gets, served, pageRequest,
                 instances, postVars>>

\* ----------------------------------------------------------------- upload

\* Mutant of Stamp: the item is rebuilt, and its page is lost.
StampRebuilds(items) ==
  [i \in 1..Len(items) |-> [items[i] EXCEPT !.migrationDate = NewDate, !.page = 0]]

\* chunk.map: every item gets its migration date (the items are the objects
\* instances holds, so instances shows the date too).
Stamp(items) == [i \in 1..Len(items) |-> [items[i] EXCEPT !.migrationDate = NewDate]]

\* Mutant of ChunkPost: the chunk is posted back to the origin.
ChunkPostToOrigin(c, chunk) ==
  AssetRequest(originalAssetUrl \o <<"/", c>>, originalAssetZoneId, originalToken,
               Some("POST"), Some(Stamp(chunk)))

\* The request that posts one chunk of collection c.
ChunkPost(c, chunk) ==
  AssetRequest(DestinationDomainObjectUrl(c), destinationAssetZoneId, destinationToken,
               Some("POST"), Some(Stamp(chunk)))

\* Promise.all over length promises, none settled yet.
AllOf(length) == [state |-> IF length = 0 THEN "resolved" ELSE "pending", count |-> 0]

\* The handlers of the promise of the outermost call for c, attached by
\* migrate: a fulfilment handler only, which posts every chunk and joins the
\* posts.  A rejection finds no handler.
OuterGdoiJob(c) ==
  /\ ~crashed
  /\ UNCHANGED assetCall
  /\ jobs # <<>> /\ Head(jobs) = Job("gdoi", c, 1)
  /\ IF gdoi[c][1] = "resolved"
     THEN LET chunks == Chunk(instances[c], queryLimit)
              all == AllOf(Len(chunks))
          IN /\ Log(<<"Finished loading", c>>)
             /\ posts' = [posts EXCEPT
                            ![c] = [i \in 1..Len(chunks) |-> ChunkPost(c, chunks[i])]]
             /\ instances' = [instances EXCEPT ![c] = Stamp(@)]
             /\ chunkRequest' = [chunkRequest EXCEPT
                                   ![c] = [i \in 1..Len(chunks) |-> "pending"]]
             /\ uploadAll' = [uploadAll EXCEPT ![c] = all]
             /\ jobs' = IF all.state = "resolved"
                        THEN Append(Tail(jobs), Job("uploadAll", c, 0))
                        ELSE Tail(jobs)
     ELSE /\ jobs' = Tail(jobs)
          /\ UNCHANGED <<console, instances, postVars>>
  /\ UNCHANGED <<crashed, tokenVars, listVars, gets, served, pageRequest, gdoi>>

\* The callback of the i-th chunk request of collection c.
ChunkResponse(c, i, error, response) ==
  /\ ~crashed
  /\ UNCHANGED assetCall
  /\ i \in 1..Len(chunkRequest[c])
  /\ chunkRequest[c][i] = "pending"
  /\ chunkRequest' = [chunkRequest EXCEPT
                        ![c][i] = IF AssetCallbackRejects(error, response)
                                  THEN "rejected" ELSE "resolved"]
  /\ jobs' = Append(jobs, Job("chunk", c, i))
  /\ UNCHANGED <<crashed, tokenVars, console, listVars, pageVars, posts, uploadAll>>

\* Mutant of ChunkJob: the outcome is passed on at every chunk that finds
\* the upload settled.
ChunkJobReportsEach(c, i) ==
  /\ ~crashed
  /\ UNCHANGED assetCall
  /\ jobs # <<>> /\ Head(jobs) = Job("chunk", c, i)
  /\ LET all == IF chunkRequest[c][i] = "resolved"
                THEN AllAfterFulfil(uploadAll[c], Len(chunkRequest[c]))
                ELSE AllAfterReject(uploadAll[c])
     IN /\ uploadAll' = [uploadAll EXCEPT ![c] = all]
        /\ jobs' = IF all.state # "pending"
                   THEN Append(Tail(jobs), Job("uploadAll", c, 0))
                   ELSE Tail(jobs)
  /\ UNCHANGED <<crashed, tokenVars, console, listVars, pageVars, posts, chunkRequest>>

\* The handler of the i-th chunk promise: Promise.all's.
ChunkJob(c, i) ==
  /\ ~crashed
  /\ UNCHANGED assetCall
  /\ jobs # <<>> /\ Head(jobs) = Job("chunk", c, i)
  /\ LET all == IF chunkRequest[c][i] = "resolved"
                THEN AllAfterFulfil(uploadAll[c], Len(chunkRequest[c]))
                ELSE AllAfterReject(uploadAll[c])
     IN /\ uploadAll' = [uploadAll EXCEPT ![c] = all]
        /\ jobs' = IF all.state # uploadAll[c].state
                   THEN Append(Tail(jobs), Job("uploadAll", c, 0))
                   ELSE Tail(jobs)
  /\ UNCHANGED <<crashed, tokenVars, console, listVars, pageVars, posts, chunkRequest>>

\* The handlers of Promise.all(promiseList): one of the two messages.
UploadAllJob(c) ==
  /\ ~crashed
  /\ UNCHANGED assetCall
  /\ jobs # <<>> /\ Head(jobs) = Job("uploadAll", c, 0)
  /\ IF uploadAll[c].state = "resolved"
     THEN Log(<<"Finished posting", c>>)
     ELSE Log(<<"There was an error posting", c>>)
  /\ jobs' = Tail(jobs)
  /\ UNCHANGED <<crashed, tokenVars, listVars, pageVars, postVars>>

\* ---------------------------------------------------------- specifications

\* Every answer a provider may give to a token request.
TokenAnswers ==
  [error : BOOLEAN,
   response : {NoResponse} \cup {Response(s) : s \in TokenStatuses},
   body : TokenBodies]

\* The answers but those that resolve to JSON without an access token.
UsualTokenAnswers ==
  {a \in TokenAnswers :
     TokenCallbackResolves(a.error, a.response) => a.body \in {"token", "malformed"}}

TokenGate ==
  \/ \E t \in Tenants : TokenJob(t)
  \/ UaaAllJob

\* Whether the server may send a continuation link on the page collection c
\* waits for: it sends none on page limit.
LinkChoices(c, limit) == IF Len(gets[c]) < limit THEN BOOLEAN ELSE {FALSE}

\* The steps after the token gate, the asset service answering with the
\* given outcomes and listings and spreading a collection over at most
\* limit pages.
PipelineOf(outcomes, listings, limit) ==
  \/ \E o \in outcomes, body \in listings :
       ListingResponse(o.error, o.response, body)
  \/ ListingJob
  \/ \E c \in Collections :
       \E o \in outcomes, size \in PageSizes(listing.body),
          more \in LinkChoices(c, limit) :
         PageResponse(c, o.error, o.response, size, more)
  \/ \E c \in Collections : PageJob(c)
  \/ \E c \in Collections : \E k \in 2..Len(gdoi[c]) : InnerGdoiJob(c, k)
  \/ \E c \in Collections : OuterGdoiJob(c)
  \/ \E c \in Collections : \E i \in 1..Len(chunkRequest[c]), o \in outcomes :
       ChunkResponse(c, i, o.error, o.response)
  \/ \E c \in Collections : \E i \in 1..Len(chunkRequest[c]) : ChunkJob(c, i)
  \/ \E c \in Collections : UploadAllJob(c)

Pipeline == PipelineOf(AssetOutcomes, ListingBodies, MaxPages)

\* The whole run, the providers answering as usual.
Next ==
  \/ \E t \in Tenants, a \in UsualTokenAnswers :
       TokenResponse(t, a.error, a.response, a.body)
  \/ TokenGate
  \/ Pipeline

Spec == Init /\ [][Next]_vars

\* The event loop runs every callback that is due, and every call that was
\* issued is answered: a step is taken as long as one is possible.
LiveSpec == Spec /\ WF_vars(Next)

\* The token gate alone, the providers answering in every way.
TokenNext ==
  \/ \E t \in Tenants, a \in TokenAnswers :
       TokenResponse(t, a.error, a.response, a.body)
  \/ TokenGate

TokenSpec == Init /\ [][TokenNext]_vars

\* The runs in which every call succeeds and the origin lists one
\* collection, spread over at most MaxPages + 1 pages.
SuccessNext ==
  \/ \E t \in Tenants, a \in {u \in UsualTokenAnswers :
                                TokenCallbackResolves(u.error, u.response)
                                /\ u.body = "token"} :
       TokenResponse(t, a.error, a.response, a.body)
  \/ TokenGate
  \/ PipelineOf({o \in AssetOutcomes : ~AssetCallbackRejects(o.error, o.response)},
                {b \in ListingBodies : Len(b) = 1}, MaxPages + 1)

SuccessSpec == Init /\ [][SuccessNext]_vars

\* One call of requestAssetData alone: every call the program makes and the
\* general form of it, answered in every way.
TransportCalls ==
  {[url |-> originalAssetUrl, zoneId |-> originalAssetZoneId,
    token |-> t, method |-> m, body |-> None] :
      t \in {EmptyToken, Bearer(AccessToken("origin"))},
      m \in {None, Some("GET")}}
  \cup {[url |-> DestinationDomainObjectUrl(c), zoneId |-> destinationAssetZoneId,
         token |-> t, method |-> Some("POST"),
         body |-> Some(Stamp(PageBody(c, 1, n)))] :
      c \in Collections,
      t \in {EmptyToken, Bearer(AccessToken("destination"))},
      n \in {1, 2}}

TransportNext ==
  \/ \E call \in TransportCalls, throws \in BOOLEAN :
       RequestAssetData(call.url, call.zoneId, call.token, call.method, call.body,
                        throws)
  \/ \E a \in AssetAnswers : AssetCallback(a.error, a.response, a.body)

TransportSpec == Init /\ [][TransportNext]_vars

\* ------------------------------------------------------------- properties

Last(s) == s[Len(s)]

\* No asset call (listing, page or chunk) was issued.
NoAssetCall ==
  /\ listingCalls = <<>>
  /\ \A c \in Collections : gets[c] = <<>> /\ posts[c] = <<>>

TokenFailed == \E t \in Tenants : tokenRequest[t].state = "rejected"

\* Every call issued was answered and every handler that was due has run.
Quiescent ==
  /\ jobs = <<>>
  /\ listing.state # "pending"
  /\ \A c \in Collections :
       /\ pageRequest[c].state # "pending"
       /\ \A i \in 1..Len(chunkRequest[c]) : chunkRequest[c][i] # "pending"

\* The records of the pages the server answered with, in page order.
RECURSIVE ServedUpTo(_, _)
ServedUpTo(c, k) ==
  IF k = 0 THEN <<>> ELSE ServedUpTo(c, k - 1) \o PageBody(c, k, served[c][k].size)
ServedRecords(c) == ServedUpTo(c, Len(served[c]))

\* A record as the destination is to receive it: the migration date set,
\* every other field as the origin served it.
Migrated(r) == [collection |-> r.collection, page |-> r.page, index |-> r.index,
                migrationDate |-> NewDate]
MigratedAll(records) == [i \in 1..Len(records) |-> Migrated(records[i])]

\* The URL between the first "<" of a link header and the first ">" after it.
Enclosed(link) ==
  LET open == CHOOSE i \in 1..Len(link) :
                link[i] = "<" /\ \A j \in 1..(i - 1) : link[j] # "<"
      close == CHOOSE i \in (open + 1)..Len(link) :
                 link[i] = ">" /\ \A j \in (open + 1)..(i - 1) : link[j] # ">"
  IN [i \in 1..(close - open - 1) |-> link[open + i]]

PageFailed(c) == pageRequest[c].state = "rejected"
ChunkFailed(c) == \E i \in 1..Len(chunkRequest[c]) : chunkRequest[c][i] = "rejected"
Discovered(c) == gets[c] # <<>>
UploadStarted(c) == uploadAll[c].state # "none"
Paginated(c) == gdoi[c] # <<>> /\ gdoi[c][1] = "resolved"

\* C1: no asset call (listing, page, chunk) is issued unless both token
\* requests succeeded; when a token request failed and every handler has
\* run, the credentials error was reported, once, and no asset call was or
\* is issued; the credentials error is reported for no other reason.
C1_TokenGate ==
  /\ ~NoAssetCall => \A t \in Tenants : tokenRequest[t].state = "resolved"
  /\ TokenFailed /\ jobs = <<>> =>
       console[<<"Please check your UAA credentials">>] = 1
  /\ console[<<"Please check your UAA credentials">>] > 0 => TokenFailed /\ NoAssetCall

\* The destination provider answered 401 after the origin's token arrived:
\* the error is reported and nothing was called.
C1_Witness ==
  /\ tokenRequest["origin"].state = "resolved"
  /\ tokenRequest["destination"].state = "rejected"
  /\ tokenResponse["destination"] = <<[error |-> FALSE, response |-> Response(401),
                                       body |-> "noToken"]>>
  /\ originalToken = Bearer(AccessToken("origin"))
  /\ console[<<"Please check your UAA credentials">>] = 1
  /\ NoAssetCall

\* C2: requestToken resolves if the provider answered with status 200 and a
\* JSON body that holds an access token, and rejects on every other answer.
C2_TokenIff ==
  \A t \in Tenants :
    tokenResponse[t] # <<>> =>
      LET a == tokenResponse[t][1]
      IN IF ~a.error /\ a.response.present /\ a.response.statusCode = 200
            /\ a.body = "token"
         THEN tokenRequest[t].state = "resolved"
         ELSE tokenRequest[t].state = "rejected"

\* C3: when N pages were served, the first N-1 with a link, and the
\* pagination resolved, it resolved with the pages' records in page order
\* after exactly N requests, the first to the collection's URL and each
\* later one to the URL the server named on the page before.
C3_FetchAll ==
  \A c \in Collections :
    Paginated(c) =>
      /\ instances[c] = IF UploadStarted(c) THEN MigratedAll(ServedRecords(c))
                        ELSE ServedRecords(c)
      /\ Len(gets[c]) = Len(served[c])
      /\ \A k \in 1..Len(gets[c]) :
           /\ gets[c][k].method = "GET"
           /\ gets[c][k].url = IF k = 1 THEN OriginDomainObjectUrl(c)
                               ELSE ServerNextUrl(c, k - 1)

\* C4: every page request after the first goes to the URL enclosed in the
\* "<" and ">" of the link header of the page before.
C4_NextUrl ==
  \A c \in Collections :
    \A k \in 2..Len(gets[c]) : gets[c][k].url = Enclosed(served[c][k - 1].link)

\* C5: when a page request of a collection failed and every handler has
\* run, the outermost pagination promise is rejected and no chunk of the
\* collection was posted.
C5_PageFailureRejects ==
  \A c \in Collections :
    PageFailed(c) /\ jobs = <<>> => gdoi[c][1] = "rejected" /\ posts[c] = <<>>

\* C6: the upload of L accumulated records issues ceil(L / queryLimit)
\* POSTs; the i-th carries at most queryLimit records, the slice of the
\* records that starts after the first (i - 1) * queryLimit, each with the
\* migration date set; together the chunks hold every record once.
C6_Chunks ==
  \A c \in Collections :
    UploadStarted(c) =>
      LET records == ServedRecords(c)
          L == Len(records)
          n == Len(posts[c])
          upTo(i) == IF i * queryLimit < L THEN i * queryLimit ELSE L
      IN /\ n * queryLimit >= L /\ (n - 1) * queryLimit < L
         /\ \A i \in 1..n :
              /\ posts[c][i].method = "POST"
              /\ posts[c][i].body # None
              /\ Len(posts[c][i].body[1]) <= queryLimit
              /\ Len(posts[c][i].body[1]) >= 1
              /\ posts[c][i].body[1] =
                   MigratedAll(SubSeq(records, (i - 1) * queryLimit + 1, upTo(i)))

\* 1500 records were accumulated and went out as chunks of 1000 and 500.
C6_Witness ==
  \E c \in Collections :
    /\ Len(ServedRecords(c)) = queryLimit + 500
    /\ Len(posts[c]) = 2
    /\ Len(posts[c][1].body[1]) = queryLimit
    /\ Len(posts[c][2].body[1]) = 500

\* C7: "Finished posting" is reported only when every chunk request
\* succeeded; once a chunk request failed it is never reported, and when
\* every handler has run the error is reported, once.
C7_UploadAllOrNothing ==
  \A c \in Collections :
    /\ console[<<"Finished posting", c>>] > 0 =>
         \A i \in 1..Len(chunkRequest[c]) : chunkRequest[c][i] = "resolved"
    /\ ChunkFailed(c) /\ jobs = <<>> =>
         /\ console[<<"There was an error posting", c>>] = 1
         /\ console[<<"Finished posting", c>>] = 0

\* Of two chunks the first succeeded, the second failed: the error is reported.
C7_Witness ==
  \E c \in Collections :
    /\ Len(chunkRequest[c]) = 2
    /\ chunkRequest[c][1] = "resolved"
    /\ chunkRequest[c][2] = "rejected"
    /\ console[<<"There was an error posting", c>>] = 1
    /\ console[<<"Finished posting", c>>] = 0

C9_ReadBeforeWrite ==
  \A c \in Collections :
    UploadStarted(c) \/ posts[c] # <<>> =>
      /\ served[c] # <<>>
      /\ Last(served[c]).link = NoLink
      /\ Len(gets[c]) = Len(served[c])
      /\ pageRequest[c].state = "resolved"

\* Two pages were read, then a chunk was posted.
C9_Witness ==
  \E c \in Collections :
    /\ Len(served[c]) = 2
    /\ served[c][1].link # NoLink
    /\ posts[c] # <<>>

\* C10: when every call was answered and every handler has run, the
\* pipeline of every discovered collection has settled: its pagination is
\* rejected, or it is resolved and its upload is resolved or rejected.
C10_Settles ==
  Quiescent =>
    \A c \in Collections :
      Discovered(c) =>
        \/ gdoi[c][1] = "rejected"
        \/ gdoi[c][1] = "resolved" /\ uploadAll[c].state \in {"resolved", "rejected"}

\* The messages that report a failure.
ErrorMessages ==
  {<<"Error loading the origin token">>, <<"Error loading the destination token">>,
   <<"Please check your UAA credentials">>,
   <<"There was an error listing asset domain objects">>}
  \cup {<<"There was an error posting", c>> : c \in Collections}

\* C11: when a page request of a collection failed and every handler has
\* run, a message reporting the failure has been printed.
C11_PageFailureReported ==
  \A c \in Collections :
    PageFailed(c) /\ jobs = <<>> => \E m \in ErrorMessages : console[m] > 0

\* C12: once the outcome of a requestAssetData call is known, the call has
\* resolved when the outcome is a response with a 2xx status and no
\* exception, and has rejected on every other outcome.
C12_TransportContract ==
  assetCall.thrown \/ assetCall.answer # None =>
    LET success == /\ ~assetCall.thrown
                   /\ assetCall.answer # None
                   /\ ~assetCall.answer[1].error
                   /\ assetCall.answer[1].response.present
                   /\ assetCall.answer[1].response.statusCode \in 200..299
    IN assetCall.state = IF success THEN "resolved" ELSE "rejected"

\* C13: at most one listing request is issued, and exactly one once the
\* listing call was made; after the listing failed no page request and no
\* chunk request is ever issued, and when its handler has run the listing
\* error has been printed, once.
C13_ListingFatal ==
  /\ Len(listingCalls) <= 1
  /\ listing.state # "none" => Len(listingCalls) = 1
  /\ listing.state = "rejected" =>
       /\ \A c \in Collections : gets[c] = <<>> /\ posts[c] = <<>>
       /\ console[<<"There was an error listing asset domain objects">>]
            = IF \E i \in 1..Len(jobs) : jobs[i].kind = "listing" THEN 0 ELSE 1

\* The listing failed, its handler has run and printed the message.
C13_Witness ==
  /\ listing.state = "rejected"
  /\ jobs = <<>>
  /\ console[<<"There was an error listing asset domain objects">>] = 1
  /\ Len(listingCalls) = 1

\* The pages of the run of 2500 records: two full pages with a link, then
\* 500 records without one.
ThreePages(c) ==
  <<[size |-> queryLimit, link |-> LinkHeader(c, 1)],
    [size |-> queryLimit, link |-> LinkHeader(c, 2)],
    [size |-> 500, link |-> NoLink]>>

\* C14: when the origin lists one collection, serves it as pages of 1000,
\* 1000 and 500 records and every call succeeds, the upload posts exactly
\* three chunks of 1000, 1000 and 500 records, every record with its
\* migration date, and when every call was answered and every handler has
\* run the collection is reported as finished posting, once, with 2500
\* records accumulated and no error.
C14_EndToEnd ==
  \A c \in Collections :
    listing.body = <<c>> /\ served[c] = ThreePages(c) =>
      /\ UploadStarted(c) =>
           /\ Len(posts[c]) = 3
           /\ Len(posts[c][1].body[1]) = queryLimit
           /\ Len(posts[c][2].body[1]) = queryLimit
           /\ Len(posts[c][3].body[1]) = 500
           /\ \A i \in 1..3 : \A j \in 1..Len(posts[c][i].body[1]) :
                posts[c][i].body[1][j].migrationDate = NewDate
           /\ Len(instances[c]) = 2 * queryLimit + 500
      /\ Quiescent =>
           /\ UploadStarted(c)
           /\ console[<<"Finished posting", c>>] = 1
           /\ console[<<"There was an error posting", c>>] = 0

\* The run of 2500 records has ended with its three chunks posted and the
\* collection reported.
C14_Witness ==
  /\ listing.body = <<"A">>
  /\ served["A"] = ThreePages("A")
  /\ Quiescent
  /\ Len(posts["A"]) = 3
  /\ console[<<"Finished posting", "A">>] = 1

\* The records of the first i chunks posted for collection c, in order.
RECURSIVE PostedUpTo(_, _)
PostedUpTo(c, i) ==
  IF i = 0 THEN <<>> ELSE PostedUpTo(c, i - 1) \o posts[c][i].body[1]
PostedRecords(c) == PostedUpTo(c, Len(posts[c]))

\* C15: the chunks posted for a collection hold, one for one and in order,
\* the records the origin served; a posted record has the fields of the
\* record served, each with the value served, except the migration date,
\* which is the date of the migration.  Until the upload the accumulated
\* records are the records served, unchanged.
C15_Frame ==
  \A c \in Collections :
    /\ Paginated(c) /\ ~UploadStarted(c) => instances[c] = ServedRecords(c)
    /\ UploadStarted(c) =>
         LET read == ServedRecords(c)
             posted == PostedRecords(c)
         IN /\ Len(posted) = Len(read)
            /\ \A j \in 1..Len(read) :
                 /\ DOMAIN posted[j] = DOMAIN read[j] \cup {"migrationDate"}
                 /\ \A f \in DOMAIN read[j] \ {"migrationDate"} :
                      posted[j][f] = read[j][f]
                 /\ posted[j].migrationDate = NewDate
                 /\ posted[j].migrationDate # read[j].migrationDate

\* Two pages of one record each, read from A and posted as one chunk of two
\* records.
C15_Witness ==
  /\ Len(served["A"]) = 2
  /\ Len(ServedRecords("A")) = 2
  /\ Len(posts["A"]) = 1
  /\ PostedRecords("A") = MigratedAll(ServedRecords("A"))

\* The page requests of collection c that were issued and not yet answered.
InFlight(c) ==
  Len(gets[c]) - Len(served[c]) - (IF PageFailed(c) THEN 1 ELSE 0)

\* C16: at most one page request of a collection is unanswered, and it is
\* the latest one; the request for page k, k > 1, is issued only after page
\* k - 1 was answered, with a link.
C16_Sequential ==
  \A c \in Collections :
    /\ InFlight(c) \in {0, 1}
    /\ InFlight(c) = 1 <=> pageRequest[c].state = "pending"
    /\ \A k \in 2..Len(gets[c]) :
         Len(served[c]) >= k - 1 /\ served[c][k - 1].link # NoLink

\* The second page of A and the first page of B are awaited at once.
C16_Witness ==
  /\ Len(gets["A"]) = 2 /\ Len(served["A"]) = 1 /\ InFlight("A") = 1
  /\ Len(gets["B"]) = 1 /\ Len(served["B"]) = 0 /\ InFlight("B") = 1

\* A step that writes the token variable of tenant t is the success handler
\* of t's token request, finds the variable empty and comes before the
\* listing call.
WritesOnce(t, old, new) ==
  new # old =>
    /\ old = EmptyToken
    /\ jobs # <<>> /\ Head(jobs) = Job("token", t, 0)
    /\ tokenRequest[t].state = "resolved"
    /\ listingCalls = <<>>

\* C17: each token variable is written at most once, by the success handler
\* of its own tenant's token request only, and never once the listing call
\* has been issued.
C17_TokensWrittenOnce ==
  [][/\ WritesOnce("origin", originalToken, originalToken')
     /\ WritesOnce("destination", destinationToken, destinationToken')]_vars

\* Both tokens are stored, the listing was asked for and a collection is
\* being read.
C17_Witness ==
  /\ originalToken = Bearer(AccessToken("origin"))
  /\ destinationToken = Bearer(AccessToken("destination"))
  /\ listingCalls # <<>>
  /\ gets["A"] # <<>>

\* C18: every listing and page request carries the bearer token the origin
\* provider issued, and every chunk request the one the destination
\* provider issued; none carries the empty token.
C18_TokensReady ==
  /\ \A i \in 1..Len(listingCalls) :
       listingCalls[i].headers.authorization = Bearer(AccessToken("origin"))
  /\ \A c \in Collections :
       /\ \A k \in 1..Len(gets[c]) :
            gets[c][k].headers.authorization = Bearer(AccessToken("origin"))
       /\ \A i \in 1..Len(posts[c]) :
            posts[c][i].headers.authorization = Bearer(AccessToken("destination"))

\* The upload outcomes reported for collection c.
Outcomes(c) ==
  console[<<"Finished posting", c>>] + console[<<"There was an error posting", c>>]

\* C19: at most one upload outcome is reported for a collection, and only
\* for one whose pagination succeeded; when every call was answered and
\* every handler has run, a collection whose pagination succeeded has
\* exactly one, however many chunk requests failed.
C19_OneOutcome ==
  \A c \in Collections :
    /\ Outcomes(c) <= 1
    /\ Outcomes(c) > 0 => Paginated(c) /\ uploadAll[c].state # "pending"
    /\ Paginated(c) /\ Quiescent => Outcomes(c) = 1

\* Both chunks of a collection failed, every handler has run: one error.
C19_Witness ==
  \E c \in Collections :
    /\ chunkRequest[c] = <<"rejected", "rejected">>
    /\ Quiescent
    /\ console[<<"There was an error posting", c>>] = 1
    /\ console[<<"Finished posting", c>>] = 0

IsPrefix(s, t) == Len(s) <= Len(t) /\ s = SubSeq(t, 1, Len(s))

\* A request to the origin tenant that reads only.
OriginRead(r) ==
  /\ r.method = "GET"
  /\ r.body = None
  /\ r.headers.zoneId = originalAssetZoneId
  /\ r.headers.authorization = Bearer(AccessToken("origin"))
  /\ ~r.headers.forceWrite

\* C20: the listing request and every page request is a GET with the
\* origin's zone id and token, to the origin's URL or to a URL taken from
\* the link header the origin sent for the same collection; every chunk
\* request is a POST with the destination's zone id and token to the
\* destination's URL of the collection, and each record in it was served by
\* the origin for that collection.
C20_TenantSeparation ==
  /\ \A i \in 1..Len(listingCalls) :
       OriginRead(listingCalls[i]) /\ listingCalls[i].url = originalAssetUrl
  /\ \A c \in Collections :
       /\ \A k \in 1..Len(gets[c]) :
            /\ OriginRead(gets[c][k])
            /\ IF k = 1
               THEN /\ IsPrefix(originalAssetUrl, gets[c][k].url)
                    /\ gets[c][k].url = OriginDomainObjectUrl(c)
               ELSE /\ gets[c][k].url # <<>>
                    /\ IsPrefix(gets[c][k].url, Enclosed(served[c][k - 1].link))
       /\ \A i \in 1..Len(posts[c]) :
            /\ posts[c][i].method = "POST"
            /\ posts[c][i].url = DestinationDomainObjectUrl(c)
            /\ IsPrefix(destinationAssetUrl, posts[c][i].url)
            /\ ~IsPrefix(originalAssetUrl, posts[c][i].url)
            /\ posts[c][i].headers.zoneId = destinationAssetZoneId
            /\ posts[c][i].headers.authorization = Bearer(AccessToken("destination"))
            /\ \A j \in 1..Len(posts[c][i].body[1]) :
                 LET r == posts[c][i].body[1][j]
                 IN /\ r.collection = c
                    /\ r.page \in 1..Len(served[c])
                    /\ r.index \in 1..served[c][r.page].size
                    /\ r = Migrated(SourceRecord(c, r.page, r.index))

\* A and B were both read and posted in one run.
C20_Witness ==
  /\ posts["A"] # <<>> /\ posts["B"] # <<>>
  /\ posts["A"][1].body[1][1].collection = "A"
  /\ posts["B"][1].body[1][1].collection = "B"
  /\ Len(gets["A"]) = 2

====
